---- MODULE Spec2Model ----
(***************************************************************************)
(* Model of the fixed-size worker thread pool of src/src/lib.rs:           *)
(* ThreadPool::build, ThreadPool::execute, Drop for ThreadPool and the     *)
(* receive/execute loop that Worker::new spawns on each worker thread.     *)
(*                                                                         *)
(* Threads: the owner of the pool (build, execute and drop run on it) and  *)
(* one thread per worker.  Every action is one atomic step of one thread.  *)
(***************************************************************************)
EXTENDS Integers, Sequences, FiniteSets

\* Largest pool size passed to build (sizes 0..MaxSize are tried).
MaxSize == 2
\* Number of jobs the owner may submit with execute.
MaxJobs == 3
\* How many times the body of Drop::drop may be run (SpecRedrop only).
MaxTeardowns == 2

WorkerIds == 0 .. (MaxSize - 1)
Jobs == 1 .. MaxJobs
NoJob == 0
NoHolder == -1

VARIABLES
    mpc,          \* position of the thread that owns the pool
    size,         \* the argument of build
    buildResult,  \* what build returned: "none" (not yet), "Ok", "InvalidSize"
    channel,      \* "absent" | "open" | "closed" (producer handle dropped)
    sender,       \* the Option<Sender>: "Absent" (no pool yet) | "Some" | "None"
    queue,        \* jobs sent and not yet received, oldest first
    workers,      \* the Vec<Worker>: records [id, thread], thread an Option
    wpc,          \* position of each worker thread
    wjob,         \* the job a worker thread holds in `message` / is running
    mutex,        \* holder of the Mutex around the Receiver, or NoHolder
    poisoned,     \* the Mutex is poisoned
    idx,          \* position of drop's for loop in workers (0-based)
    submitted,    \* number of jobs passed to execute so far (jobs 1..submitted)
    jobPanics,    \* for each job, whether its closure panics when called
    recvLog,      \* history: <<job, worker>> for every successful recv, in order
    doneCount,    \* history: how many times each job ran to completion
    tlog,         \* history: the steps of drop, in order
    closes,       \* history: how many times a Sender was actually dropped
    joins,        \* history: how many times each worker's handle was joined
    teardowns,    \* history: how many times the body of drop was entered
    unwinding,    \* the owner's thread is unwinding from a panic of execute
    queuedAtClose \* history: jobs were queued when the Sender was dropped

vars == <<mpc, size, buildResult, channel, sender, queue, workers, wpc, wjob,
          mutex, poisoned, idx, submitted, jobPanics, recvLog, doneCount,
          tlog, closes, joins, teardowns, unwinding, queuedAtClose>>

mainVars == <<mpc, size, buildResult, sender, workers, idx, submitted,
              jobPanics, tlog, closes, joins, teardowns, unwinding, queuedAtClose>>

\* A worker thread that has been spawned and has not finished.
ThreadLive(w) == wpc[w] \in {"lock", "recv", "exec"}

ThreadFinished(w) == wpc[w] \in {"done", "panicked"}

\* The Receiver lives inside the Arc: it is dropped when the last clone goes,
\* i.e. when build has returned (its own clone is gone) and every worker
\* thread has finished (each closure owns one clone).
ReceiverAlive ==
    /\ channel # "absent"
    /\ \/ mpc = "spawning"
       \/ \E w \in WorkerIds : ThreadLive(w)

Init ==
    /\ mpc = "start"
    /\ size = 0
    /\ buildResult = "none"
    /\ channel = "absent"
    /\ sender = "Absent"
    /\ queue = << >>
    /\ workers = << >>
    /\ wpc = [w \in WorkerIds |-> "unspawned"]
    /\ wjob = [w \in WorkerIds |-> NoJob]
    /\ mutex = NoHolder
    /\ poisoned = FALSE
    /\ idx = 0
    /\ submitted = 0
    /\ jobPanics = [j \in Jobs |-> FALSE]
    /\ recvLog = << >>
    /\ doneCount = [j \in Jobs |-> 0]
    /\ tlog = << >>
    /\ closes = 0
    /\ joins = [w \in WorkerIds |-> 0]
    /\ teardowns = 0
    /\ unwinding = FALSE
    /\ queuedAtClose = FALSE


(***************************************************************************)
(* ThreadPool::build                                                       *)
(***************************************************************************)

\* Mutant of SizeInvalid: the test written as `size < 0`, never true of a usize.
SizeInvalidNever(s) == s < 0

\* `if size <= 0`
SizeInvalid(s) == s <= 0

\* Mutant of WorkerNew: the worker is numbered from 1.
WorkerNewOffByOne(id) == [id |-> id + 1, thread |-> "Some"]

\* `Self { id, thread: Some(thread) }`
WorkerNew(id) == [id |-> id, thread |-> "Some"]

\* build is entered with argument s: the size test, then mpsc::channel(),
\* Arc::new(Mutex::new(receiver)) and Vec::with_capacity(size).
Build(s) ==
    /\ mpc = "start"
    /\ size' = s
    /\ IF SizeInvalid(s)
       THEN /\ buildResult' = "InvalidSize"
            /\ mpc' = "build_err"
            /\ UNCHANGED channel
       ELSE /\ channel' = "open"
            /\ mpc' = "spawning"
            /\ UNCHANGED buildResult
    /\ UNCHANGED <<sender, queue, workers, wpc, wjob, mutex, poisoned, idx,
                   submitted, jobPanics, recvLog, doneCount, tlog, closes,
                   joins, teardowns, unwinding, queuedAtClose>>

\* One turn of `(0..size).for_each(|id| workers.push(Worker::new(id, ..)))`:
\* thread::spawn starts the worker's loop, the Worker is pushed.
Spawn ==
    /\ mpc = "spawning"
    /\ Len(workers) < size
    /\ LET id == Len(workers) IN
          /\ workers' = Append(workers, WorkerNew(id))
          /\ wpc' = [wpc EXCEPT ![id] = "lock"]
    /\ UNCHANGED <<mpc, size, buildResult, channel, sender, queue, wjob, mutex,
                   poisoned, idx, submitted, jobPanics, recvLog, doneCount,
                   tlog, closes, joins, teardowns, unwinding, queuedAtClose>>

\* `Ok(ThreadPool { workers, sender: Some(sender) })`
BuildReturn ==
    /\ mpc = "spawning"
    /\ Len(workers) = size
    /\ sender' = "Some"
    /\ buildResult' = "Ok"
    /\ mpc' = "alive"
    /\ UNCHANGED <<size, channel, queue, workers, wpc, wjob, mutex, poisoned,
                   idx, submitted, jobPanics, recvLog, doneCount, tlog, closes,
                   joins, teardowns, unwinding, queuedAtClose>>

(***************************************************************************)
(* ThreadPool::execute                                                     *)
(***************************************************************************)

\* Mutant of Send: the job is put at the head of the queue.
SendToFront(q, j) == <<j>> \o q

\* Sender::send puts the job at the tail of the channel's queue.
Send(q, j) == Append(q, j)

\* execute(job) on a pool that is not being dropped; p says whether the
\* closure panics when it is called.  sender.as_ref().unwrap() panics on None,
\* send(..) fails when the Receiver is gone and .unwrap() then panics; the
\* panic unwinds the owner's thread.
Execute(p) ==
    /\ mpc = "alive"
    /\ submitted < MaxJobs
    /\ LET j == submitted + 1 IN
          /\ submitted' = j
          /\ jobPanics' = [jobPanics EXCEPT ![j] = p]
          /\ IF sender = "Some" /\ ReceiverAlive
             THEN /\ queue' = Send(queue, j)
                  /\ UNCHANGED <<mpc, unwinding>>
             ELSE /\ mpc' = "exec_panicked"
                  /\ unwinding' = TRUE
                  /\ UNCHANGED queue
    /\ UNCHANGED <<size, buildResult, channel, sender, workers, wpc, wjob,
                   mutex, poisoned, idx, recvLog, doneCount, tlog, closes,
                   joins, teardowns, queuedAtClose>>

(***************************************************************************)
(* The loop of a worker thread (the closure of Worker::new)                *)
(***************************************************************************)

\* Mutant of MutexFree: the Receiver is shared without mutual exclusion.
MutexNeverBlocks(m) == TRUE

\* Mutex::lock returns only when no thread holds the mutex.
MutexFree(m) == m = NoHolder

\* Mutant of PoisonedLock: the poison is ignored (into_inner) and the worker
\* goes on to receive.
PoisonedLockIgnored == "recv"

\* `.expect("Mutex poisoned: ...")` on the Err of a poisoned mutex: the worker
\* thread panics.
PoisonedLock == "panicked"

\* receiver.lock().expect(..): blocks while another thread holds the mutex;
\* on a poisoned mutex expect panics and the guard is released by unwinding.
WorkerLock(w) ==
    /\ wpc[w] = "lock"
    /\ MutexFree(mutex)
    /\ IF poisoned
       THEN /\ wpc' = [wpc EXCEPT ![w] = PoisonedLock]
            /\ UNCHANGED mutex
       ELSE /\ wpc' = [wpc EXCEPT ![w] = "recv"]
            /\ mutex' = w
    /\ UNCHANGED <<mainVars, channel, queue, wjob, poisoned, recvLog, doneCount>>

\* Mutant of RecvResult: recv fails as soon as the Sender is gone, though
\* jobs are still queued.
RecvFailsOnceClosed(q, ch) ==
    IF ch = "closed" THEN "Err" ELSE IF q # << >> THEN "Ok" ELSE "Block"

\* mpsc::Receiver::recv: a queued message if there is one, Err when the queue
\* is empty and every Sender is gone, and blocked otherwise.
RecvResult(q, ch) ==
    IF q # << >> THEN "Ok" ELSE IF ch = "closed" THEN "Err" ELSE "Block"

\* Mutant of Dequeue: the received job stays in the queue.
DequeueKeeps(q) == q

\* What recv leaves in the queue.
Dequeue(q) == Tail(q)

\* Mutant of HolderAfterRecv: the guard lives on while the job runs
\* (the `while let Ok(job) = receiver.lock().unwrap().recv()` form).
HolderKeepsLock(w) == w

\* "lock automatically released": the MutexGuard is a temporary of the let
\* statement and is dropped when the statement ends.
HolderAfterRecv(w) == NoHolder

\* `.recv()` returns under the lock, the guard is dropped, and `match message`
\* either keeps the job to run it or breaks out of the loop.
WorkerRecv(w) ==
    /\ wpc[w] = "recv"
    /\ mutex = w
    /\ RecvResult(queue, channel) # "Block"
    /\ IF RecvResult(queue, channel) = "Ok"
       THEN /\ wjob' = [wjob EXCEPT ![w] = Head(queue)]
            /\ queue' = Dequeue(queue)
            /\ recvLog' = Append(recvLog, <<Head(queue), w>>)
            /\ wpc' = [wpc EXCEPT ![w] = "exec"]
            /\ mutex' = HolderAfterRecv(w)
       ELSE /\ wpc' = [wpc EXCEPT ![w] = "done"]
            /\ mutex' = NoHolder
            /\ UNCHANGED <<wjob, queue, recvLog>>
    /\ UNCHANGED <<mainVars, channel, poisoned, doneCount>>

\* Mutant of AfterJob: the thread leaves the loop after its first job.
AfterJobBreak == "done"

\* The end of the loop body: back to `receiver.lock()`.
AfterJob == "lock"

\* `job()` returns.
JobReturn(w) ==
    /\ wpc[w] = "exec"
    /\ ~jobPanics[wjob[w]]
    /\ doneCount' = [doneCount EXCEPT ![wjob[w]] = @ + 1]
    /\ wjob' = [wjob EXCEPT ![w] = NoJob]
    /\ wpc' = [wpc EXCEPT ![w] = AfterJob]
    /\ mutex' = IF mutex = w THEN NoHolder ELSE mutex
    /\ UNCHANGED <<mainVars, channel, queue, poisoned, recvLog>>

\* `job()` panics: the thread unwinds and finishes; a guard it still held
\* would be dropped during the unwinding and poison the mutex.
JobPanic(w) ==
    /\ wpc[w] = "exec"
    /\ jobPanics[wjob[w]]
    /\ wpc' = [wpc EXCEPT ![w] = "panicked"]
    /\ poisoned' = (poisoned \/ mutex = w)
    /\ mutex' = IF mutex = w THEN NoHolder ELSE mutex
    /\ UNCHANGED <<mainVars, channel, queue, wjob, recvLog, doneCount>>

(***************************************************************************)
(* Drop for ThreadPool                                                     *)
(***************************************************************************)

\* Mutant of TakeSender: the sender is left in place (no `drop(sender.take())`).
TakeSenderForgotten(sd) == sd

\* `self.sender.take()` leaves None in the field.
TakeSender(sd) == "None"

\* `drop(self.sender.take())` and the start of the for loop.  Dropping the one
\* Sender closes the channel; taking from None drops nothing.
DropSender ==
    /\ teardowns' = teardowns + 1
    /\ sender' = TakeSender(sender)
    /\ IF sender = "Some" /\ sender' = "None"
       THEN /\ channel' = "closed"
            /\ closes' = closes + 1
            /\ tlog' = Append(tlog, <<"close", NoHolder>>)
            /\ queuedAtClose' = (queue # << >>)
       ELSE UNCHANGED <<channel, closes, tlog, queuedAtClose>>
    /\ idx' = 0
    /\ mpc' = "loop"
    /\ UNCHANGED <<size, buildResult, queue, workers, wpc, wjob, mutex,
                   poisoned, submitted, jobPanics, recvLog, doneCount, joins,
                   unwinding>>

\* The pool goes out of scope in its owner, or the owner unwinds from the
\* panic of execute: drop is entered.
BeginDrop ==
    /\ mpc \in {"alive", "exec_panicked"}
    /\ DropSender

\* Mutant of TakeThread: the handle is left in the Worker.
TakeThreadLeaves(t) == t

\* `worker.thread.take()` leaves None in the Worker.
TakeThread(t) == "None"

\* One turn of `for worker in &mut self.workers`:
\* `if let Some(thread) = worker.thread.take()` and the call of join.
JoinTake ==
    /\ mpc = "loop"
    /\ idx < Len(workers)
    /\ LET worker == workers[idx + 1] IN
          /\ workers' = [workers EXCEPT ![idx + 1].thread = TakeThread(@)]
          /\ IF worker.thread = "Some"
             THEN /\ mpc' = "join"
                  /\ tlog' = Append(tlog, <<"join", worker.id>>)
                  /\ UNCHANGED idx
             ELSE /\ idx' = idx + 1
                  /\ UNCHANGED <<mpc, tlog>>
    /\ UNCHANGED <<size, buildResult, channel, sender, queue, wpc, wjob, mutex,
                   poisoned, submitted, jobPanics, recvLog, doneCount, closes,
                   joins, teardowns, unwinding, queuedAtClose>>

\* Mutant of JoinReady: the handle is dropped (the thread detached) instead of
\* joined, so drop does not wait.
JoinReadyAtOnce(w) == TRUE

\* JoinHandle::join returns once the thread has finished.
JoinReady(w) == ThreadFinished(w)

\* Mutant of JoinIsErr: the result of join is discarded (`let _ = join()`).
JoinErrIgnored(w) == FALSE

\* join returns Err exactly when the thread ended in a panic.
JoinIsErr(w) == wpc[w] = "panicked"

\* `thread.join().unwrap()`: join returns Ok when the thread returned and Err
\* when it panicked; unwrap then panics in drop, which aborts the process if
\* the owner is already unwinding.
JoinReturn ==
    /\ mpc = "join"
    /\ LET w == workers[idx + 1].id IN
          /\ JoinReady(w)
          /\ joins' = [joins EXCEPT ![w] = @ + 1]
          /\ tlog' = Append(tlog, <<"joined", w>>)
          /\ IF JoinIsErr(w)
             THEN /\ mpc' = IF unwinding THEN "aborted" ELSE "drop_panicked"
                  /\ UNCHANGED idx
             ELSE /\ mpc' = "loop"
                  /\ idx' = idx + 1
    /\ UNCHANGED <<size, buildResult, channel, sender, queue, workers, wpc,
                   wjob, mutex, poisoned, submitted, jobPanics, recvLog,
                   doneCount, closes, teardowns, unwinding, queuedAtClose>>

\* The for loop is over and drop returns.
DropReturn ==
    /\ mpc = "loop"
    /\ idx = Len(workers)
    /\ mpc' = IF unwinding THEN "unwound" ELSE "returned"
    /\ UNCHANGED <<size, buildResult, channel, sender, queue, workers, wpc,
                   wjob, mutex, poisoned, idx, submitted, jobPanics, recvLog,
                   doneCount, tlog, closes, joins, teardowns, unwinding, queuedAtClose>>

\* Drop::drop is run once more on a pool whose drop has returned: the same
\* statements on the state the first run left.
DropAgain ==
    /\ mpc = "returned"
    /\ teardowns < MaxTeardowns
    /\ DropSender

(***************************************************************************)
(* Specifications                                                          *)
(***************************************************************************)

Worker(w) ==
    \/ WorkerLock(w)
    \/ WorkerRecv(w)
    \/ JobReturn(w)
    \/ JobPanic(w)

Next ==
    \/ \E s \in 0 .. MaxSize : Build(s)
    \/ Spawn
    \/ BuildReturn
    \/ \E p \in BOOLEAN : Execute(p)
    \/ BeginDrop
    \/ JoinTake
    \/ JoinReturn
    \/ DropReturn
    \/ \E w \in WorkerIds : Worker(w)

\* The program: drop runs once.
Spec == Init /\ [][Next]_vars

\* Threads that can take a step are eventually scheduled: weak fairness of
\* every step of a worker thread and of every step of a drop that has begun.
\* Nothing obliges the owner to call build or execute or to drop the pool.
Fairness ==
    /\ \A w \in WorkerIds : /\ WF_vars(WorkerLock(w))
                            /\ WF_vars(WorkerRecv(w))
                            /\ WF_vars(JobReturn(w))
                            /\ WF_vars(JobPanic(w))
    /\ WF_vars(JoinTake)
    /\ WF_vars(JoinReturn)
    /\ WF_vars(DropReturn)

FairSpec == Spec /\ Fairness

\* The body of drop applied again to a pool that has been torn down.
NextRedrop == Next \/ DropAgain

SpecRedrop == Init /\ [][NextRedrop]_vars

\* The fault the code's comment on lock() describes: "some other thread
\* panicked while holding the lock rather than releasing the lock".  The
\* holder's thread ends in a panic inside its receive attempt; its guard is
\* dropped by the unwinding, which poisons the mutex.
HolderPanics(w) ==
    /\ wpc[w] = "recv"
    /\ mutex = w
    /\ wpc' = [wpc EXCEPT ![w] = "panicked"]
    /\ poisoned' = TRUE
    /\ mutex' = NoHolder
    /\ UNCHANGED <<mainVars, channel, queue, wjob, recvLog, doneCount>>

\* The program with that fault injected.
NextPoison == Next \/ \E w \in WorkerIds : HolderPanics(w)

SpecPoison == Init /\ [][NextPoison]_vars

TypeOK ==
    /\ mpc \in {"start", "build_err", "spawning", "alive", "exec_panicked",
                "loop", "join", "returned", "unwound", "drop_panicked",
                "aborted"}
    /\ size \in 0 .. MaxSize
    /\ buildResult \in {"none", "Ok", "InvalidSize"}
    /\ channel \in {"absent", "open", "closed"}
    /\ sender \in {"Absent", "Some", "None"}
    /\ queue \in Seq(Jobs)
    /\ Len(workers) <= MaxSize
    /\ wpc \in [WorkerIds -> {"unspawned", "lock", "recv", "exec", "done",
                              "panicked"}]
    /\ wjob \in [WorkerIds -> Jobs \cup {NoJob}]
    /\ mutex \in WorkerIds \cup {NoHolder}
    /\ poisoned \in BOOLEAN
    /\ idx \in 0 .. MaxSize
    /\ submitted \in 0 .. MaxJobs
    /\ unwinding \in BOOLEAN

(***************************************************************************)
(* Properties                                                              *)
(***************************************************************************)

Submitted == 1 .. submitted

\* No job passed to execute so far panics when called.
NoJobPanics == \A j \in Submitted : ~jobPanics[j]

\* How many times job j was received from the queue.
Receipts(j) == Cardinality({k \in DOMAIN recvLog : recvLog[k][1] = j})

\* The workers that received job j.
Receivers(j) == {recvLog[k][2] : k \in {i \in DOMAIN recvLog : recvLog[i][1] = j}}

\* The worker threads that build has spawned.
Spawned == {w \in WorkerIds : wpc[w] # "unspawned"}

\* C1: if no submitted job panics, then when drop returns every submitted job
\* has been received once and has run to completion once, and the queue is
\* empty; this covers the jobs still queued when the sender was dropped.
C1_AllJobsOnceAtReturn ==
    (mpc = "returned" /\ NoJobPanics) =>
        /\ size >= 1
        /\ queue = << >>
        /\ Len(recvLog) = submitted
        /\ \A j \in Submitted : doneCount[j] = 1 /\ Receipts(j) = 1
        /\ \A j \in Jobs \ Submitted : doneCount[j] = 0

\* Drop has returned on a pool to which more jobs than workers were given,
\* none panicking, some of them still queued when the sender was dropped.
C1_Witness ==
    /\ mpc = "returned"
    /\ NoJobPanics
    /\ submitted > size
    /\ queuedAtClose
    /\ \A j \in Submitted : doneCount[j] = 1

\* C2: in every state, panicking jobs or not, a job has been received from
\* the queue at most once, hence by at most one worker, and no two worker
\* threads hold the same job.
C2_ReceivedAtMostOnce ==
    /\ \A j \in Jobs : Receipts(j) <= 1 /\ Cardinality(Receivers(j)) <= 1
    /\ \A v, w \in WorkerIds :
          (v # w /\ wpc[v] = "exec" /\ wpc[w] = "exec") => wjob[v] # wjob[w]
    /\ \A j \in Jobs : doneCount[j] <= 1

\* Two workers have each received a job, and one of the jobs panics.
C2_Witness ==
    /\ Len(recvLog) >= 2
    /\ \E j \in Submitted : jobPanics[j] /\ Receipts(j) = 1
    /\ \E j, k \in Submitted : j # k /\ Receivers(j) # {} /\ Receivers(k) # {}
                                  /\ Receivers(j) # Receivers(k)

\* C3: once build(0) has been entered it has returned InvalidSize, and no
\* channel, no worker, no thread and no pool exists then or later.
C3_BuildZeroFails ==
    (mpc # "start" /\ size = 0) =>
        /\ mpc = "build_err"
        /\ buildResult = "InvalidSize"
        /\ channel = "absent"
        /\ sender = "Absent"
        /\ workers = << >>
        /\ Spawned = {}
        /\ queue = << >>

\* build(0) has returned its error.
C3_Witness == mpc = "build_err" /\ size = 0 /\ buildResult = "InvalidSize"

C5_EveryJobEventuallyRuns ==
    ([]NoJobPanics) =>
        \A j \in Jobs : (submitted >= j) ~> (doneCount[j] = 1)

\* The pool is still alive, more jobs than workers were submitted, none
\* panicking, and all of them have run.
C5_Witness ==
    /\ mpc = "alive"
    /\ NoJobPanics
    /\ submitted > size
    /\ \A j \in Submitted : doneCount[j] = 1

\* The k-th step of a teardown of a pool: the sender is dropped, then the
\* workers are joined in the order of their ids, one join returning before
\* the next is called.
TeardownStep(k) ==
    IF k = 1 THEN <<"close", NoHolder>>
    ELSE IF k % 2 = 0 THEN <<"join", (k - 2) \div 2>>
    ELSE <<"joined", (k - 3) \div 2>>

\* C6: the steps drop has taken so far are a prefix of: close the channel,
\* join worker 0, worker 0 joined, join worker 1, worker 1 joined, ...; and
\* while a join is in progress the sender is gone and the channel closed.
C6_TeardownOrder ==
    /\ \A k \in DOMAIN tlog : tlog[k] = TeardownStep(k)
    /\ mpc = "join" => sender = "None" /\ channel = "closed" /\ closes = 1
    /\ mpc \in {"loop", "join", "returned"} => tlog # << >> /\ sender = "None"

\* Drop has returned after joining MaxSize workers.
C6_Witness ==
    /\ mpc = "returned"
    /\ size = MaxSize
    /\ Len(tlog) = 1 + 2 * MaxSize

\* C7: when drop has returned, no worker is running a job, every job that
\* was received by a worker has run to completion and every worker thread
\* has finished.
C7_JoinBeforeReturn ==
    mpc = "returned" =>
        /\ \A w \in WorkerIds : wpc[w] # "exec" /\ wjob[w] = NoJob
        /\ \A w \in 0 .. (size - 1) : ThreadFinished(w)
        /\ \A k \in DOMAIN recvLog : doneCount[recvLog[k][1]] = 1

\* Drop has returned, and jobs were still queued when it dropped the sender:
\* they were received and run while drop was waiting in its joins.
C7_Witness ==
    /\ mpc = "returned"
    /\ queuedAtClose
    /\ recvLog # << >>
    /\ \A k \in DOMAIN recvLog : doneCount[recvLog[k][1]] = 1

\* C8: while the pool exists and its drop has not begun, execute cannot
\* fail: the sender is present, the channel is connected at both ends, and
\* the owner has not panicked in execute.
C8_ExecuteSucceedsWhileAlive ==
    (buildResult = "Ok" /\ teardowns = 0) =>
        /\ mpc = "alive"
        /\ ~unwinding
        /\ sender = "Some"
        /\ channel = "open"
        /\ ReceiverAlive

\* The worker threads that died of a panic.
Panicked == {w \in WorkerIds : wpc[w] = "panicked"}

\* C9: a panicking job takes down the worker thread that runs it and nothing
\* else: a worker thread dies only of the job it was running, no worker is
\* spawned after build, the threads left are the workers spawned less those
\* that ran a panicking job, the owner's thread fails neither in execute nor
\* in drop, and on a pool of size 1 no job submitted after a panicking first
\* job is ever run.
C9_PanicContained ==
    /\ \A w \in Panicked : wjob[w] # NoJob /\ jobPanics[wjob[w]]
    /\ mpc \notin {"start", "spawning", "build_err"} => Spawned = 0 .. (size - 1)
    /\ channel = "open" /\ mpc # "spawning" =>
          Cardinality({w \in WorkerIds : ThreadLive(w)})
              = size - Cardinality(Panicked)
    /\ mpc \notin {"exec_panicked", "drop_panicked", "aborted", "unwound"}
    /\ ~unwinding
    /\ (size = 1 /\ submitted >= 1 /\ jobPanics[1]) =>
          \A j \in Jobs : doneCount[j] = 0

\* C10: the sender is dropped at most once and every thread handle is joined
\* at most once, exactly once each when drop has returned; and a further run
\* of drop on the pool closes nothing, joins nothing and leaves the channel,
\* the queue, the workers and their threads as they were.
C10_TeardownIdempotent ==
    /\ [](/\ closes <= 1
          /\ \A w \in WorkerIds : joins[w] <= 1
          /\ mpc = "returned" =>
                /\ closes = 1
                /\ sender = "None"
                /\ \A w \in 0 .. (size - 1) : joins[w] = 1
                /\ \A i \in 1 .. Len(workers) : workers[i].thread = "None")
    /\ [][teardowns' >= 2 =>
             UNCHANGED <<channel, sender, queue, workers, wpc, wjob, mutex,
                         poisoned, closes, joins, tlog, recvLog, doneCount>>]_vars

\* Drop has been run a second time on a pool of MaxSize workers and has
\* returned again.
C10_Witness ==
    /\ mpc = "returned"
    /\ teardowns = 2
    /\ size = MaxSize
    /\ closes = 1
    /\ \A w \in WorkerIds : joins[w] = 1

\* The worker threads that are running a job.
Executing == {w \in WorkerIds : wpc[w] = "exec"}

\* The worker threads that are waiting for the lock or for a job.
Listening == {w \in WorkerIds : wpc[w] \in {"lock", "recv"}}

\* C11: the pool does not serialize jobs: while a worker runs a job and a job
\* is queued, a listening worker can always take its next step towards
\* receiving it (take the lock, or receive under the lock); so two jobs can
\* be running at once on two workers, which is the witness.
C11_RunningJobBlocksNoReceive ==
    (Executing # {} /\ queue # << >> /\ Listening # {}) =>
        ENABLED (\E v \in WorkerIds : WorkerLock(v) \/ WorkerRecv(v))

\* On a pool of two or more workers, two submitted jobs are running at the
\* same time on two different workers.
C11_Witness ==
    /\ size >= 2
    /\ \E v, w \in WorkerIds :
          /\ v # w
          /\ wpc[v] = "exec" /\ wpc[w] = "exec"
          /\ wjob[v] = 1 /\ wjob[w] = 2

\* C12: the mutex is held only by a worker that is inside its receive
\* attempt: a worker that runs a job, waits for the lock or has finished does
\* not hold it, and a step that ends a receive attempt (with a job or with
\* an error) releases it.
C12_LockOnlyDuringRecv ==
    /\ [](\A w \in WorkerIds : mutex = w => wpc[w] = "recv")
    /\ [][\A w \in WorkerIds :
             (wpc[w] = "recv" /\ wpc'[w] # "recv") =>
                 (mutex = w /\ mutex' = NoHolder)]_vars

\* One worker runs a job while another holds the lock in its own receive.
C12_Witness ==
    \E v, w \in WorkerIds :
        /\ wpc[v] = "exec"
        /\ wpc[w] = "recv"
        /\ mutex = w

\* C13: a worker thread changes position only by: being spawned (into
\* Listening), taking the lock (within Listening), Listening -> Executing by a
\* successful receive, Executing -> Listening by its job returning,
\* Listening -> Terminated by a receive that fails on the closed, empty
\* channel, and Executing -> Terminated when its job panics, which no step
\* does while no submitted job panics.  A finished thread never moves again.
C13_WorkerStateMachine ==
    [][\A w \in WorkerIds :
          wpc'[w] # wpc[w] =>
              \/ wpc[w] = "unspawned" /\ wpc'[w] = "lock"
              \/ wpc[w] = "lock" /\ wpc'[w] = "recv"
              \/ /\ wpc[w] = "recv" /\ wpc'[w] = "exec"
                 /\ queue # << >>
                 /\ wjob'[w] = Head(queue)
                 /\ recvLog' = Append(recvLog, <<Head(queue), w>>)
              \/ /\ wpc[w] = "exec" /\ wpc'[w] = "lock"
                 /\ doneCount'[wjob[w]] = doneCount[wjob[w]] + 1
              \/ /\ wpc[w] = "recv" /\ wpc'[w] = "done"
                 /\ channel = "closed" /\ queue = << >>
              \/ /\ wpc[w] = "exec" /\ wpc'[w] = "panicked"
                 /\ jobPanics[wjob[w]]
                 /\ ~NoJobPanics]_vars

\* A worker has received a job, run it to completion, listened again and
\* ended on the closed channel.
C13_Witness ==
    \E w \in WorkerIds :
        /\ wpc[w] = "done"
        /\ \E k \in DOMAIN recvLog :
              recvLog[k][2] = w /\ doneCount[recvLog[k][1]] = 1

\* C14: a closed channel stays closed; a receive attempt ends in failure
\* exactly when the channel is closed and the queue empty, so jobs queued at
\* the close are still delivered; and once a receive has failed the channel
\* is closed and empty for good, so every later receive fails too.
C14_ClosedIsPermanent ==
    /\ [][channel = "closed" => channel' = "closed"]_vars
    /\ [][\A w \in WorkerIds :
             (wpc[w] = "recv" /\ wpc'[w] # "recv") =>
                 (wpc'[w] = "done" <=> (channel = "closed" /\ queue = << >>))]_vars
    /\ [](channel = "closed" /\ queue # << >> =>
             \A w \in WorkerIds : wpc[w] # "done")
    /\ []((\E w \in WorkerIds : wpc[w] = "done") =>
             (channel = "closed" /\ queue = << >>))

\* Jobs were queued when the sender was dropped, all of them were received
\* afterwards, and a worker has then seen its receive fail.
C14_Witness ==
    /\ queuedAtClose
    /\ channel = "closed"
    /\ Len(recvLog) = submitted
    /\ \E w \in WorkerIds : wpc[w] = "done"

\* Drop has ended: it returned, or it panicked in join().unwrap().
DropEnded == mpc \in {"returned", "unwound", "drop_panicked", "aborted"}

\* C15: under fair scheduling, once drop has begun every worker thread
\* eventually finishes (none waits for ever for a job or for the lock) and
\* drop eventually ends; if no job ever panics, drop returns with every
\* worker thread out of its loop.
C15_ShutdownTerminates ==
    /\ (teardowns >= 1) ~> (\A w \in Spawned : ThreadFinished(w))
    /\ (teardowns >= 1) ~> DropEnded
    /\ ([]NoJobPanics) =>
           ((teardowns >= 1) ~>
                (mpc = "returned" /\ \A w \in Spawned : wpc[w] = "done"))

\* Drop has returned on a pool of MaxSize workers to which MaxJobs jobs were
\* given, and every worker thread has left its loop.
C15_Witness ==
    /\ mpc = "returned"
    /\ size = MaxSize
    /\ submitted = MaxJobs
    /\ \A w \in Spawned : wpc[w] = "done"

\* The worker threads that are inside a receive attempt.
MidReceive == {w \in WorkerIds : wpc[w] = "recv"}

\* C16: at most one worker is inside a receive attempt, and it is the holder
\* of the mutex; a job leaves the queue only in a step of the holder, and
\* every other listening worker is waiting for the lock.
C16_OneReceiverAtATime ==
    /\ [](/\ Cardinality(MidReceive) <= 1
          /\ \A w \in MidReceive : mutex = w
          /\ \A w \in Listening \ MidReceive : wpc[w] = "lock" /\ mutex # w)
    /\ [][queue' # queue /\ Len(queue') < Len(queue) =>
             \E w \in WorkerIds :
                 /\ mutex = w /\ wpc[w] = "recv"
                 /\ wpc'[w] = "exec" /\ wjob'[w] = Head(queue)
                 /\ \A v \in WorkerIds \ {w} : wpc'[v] = wpc[v]]_vars

\* One worker holds the lock in recv while every other worker of a pool of
\* MaxSize workers waits for the lock.
C16_Witness ==
    /\ size = MaxSize
    /\ Cardinality(MidReceive) = 1
    /\ Cardinality(Listening) = MaxSize
    /\ mutex \in MidReceive

\* C17: jobs are numbered in the order of their execute calls.  The queue
\* holds them in that order, and workers receive them in that order: a job
\* is received only after every job submitted before it, and every queued
\* job was submitted after every received one.
C17_FifoDispatch ==
    /\ \A k, l \in DOMAIN queue : k < l => queue[k] < queue[l]
    /\ \A k, l \in DOMAIN recvLog : k < l => recvLog[k][1] < recvLog[l][1]
    /\ \A a, b \in Submitted : (a < b /\ Receipts(b) >= 1) => Receipts(a) >= 1
    /\ \A k \in DOMAIN queue : \A l \in DOMAIN recvLog : recvLog[l][1] < queue[k]

\* Three jobs were received in the order of their submission, and the
\* second has completed while the first is still running: only the order of
\* completion differs.
C17_Witness ==
    /\ Len(recvLog) >= 3
    /\ doneCount[1] = 0
    /\ doneCount[2] = 1
    /\ \E w \in WorkerIds : wpc[w] = "exec" /\ wjob[w] = 1

\* C18: a worker whose lock() finds the mutex poisoned panics: its thread
\* ends there, it takes nothing from the queue and runs nothing, and it does
\* not go on to receive; so once the mutex is poisoned no worker is in a
\* receive attempt and no job is received any more.
C18_PoisonedLockPanics ==
    /\ [](poisoned => (MidReceive = {} /\ mutex = NoHolder))
    /\ [][\A w \in WorkerIds :
             (poisoned /\ wpc[w] = "lock" /\ wpc'[w] # "lock") =>
                 /\ wpc'[w] = "panicked"
                 /\ UNCHANGED <<queue, recvLog, doneCount, wjob, mutex>>]_vars
    /\ [][poisoned => (recvLog' = recvLog /\ Len(queue') >= Len(queue))]_vars

\* The mutex is poisoned and a second worker, which was running no job, has
\* panicked at its lock().
C18_Witness ==
    /\ poisoned
    /\ Cardinality({w \in Panicked : wjob[w] = NoJob}) >= 2

\* Job j is waiting in the queue.
Queued(j) == \E k \in DOMAIN queue : queue[k] = j

\* C19: a panicking job never poisons the mutex: the worker that runs it
\* does not hold the lock, and the step in which it panics leaves the mutex
\* as it was, so the mutex is never poisoned.  Hence, under fair scheduling,
\* a queued job is eventually received unless every worker thread has died
\* of a panic: the surviving workers go on receiving.
C19_JobPanicNeverPoisons ==
    /\ [](~poisoned)
    /\ [][\A w \in WorkerIds :
             (wpc[w] = "exec" /\ wpc'[w] = "panicked") =>
                 (mutex # w /\ mutex' = mutex /\ poisoned' = poisoned)]_vars
    /\ \A j \in Jobs :
          Queued(j) ~> (Receipts(j) = 1 \/ \A w \in Spawned : wpc[w] = "panicked")

\* On a pool of two or more workers one worker has died of a panicking job,
\* and another worker has received a job submitted later and run it to
\* completion; the mutex is not poisoned.
C19_Witness ==
    /\ size >= 2
    /\ ~poisoned
    /\ \E k, l \in DOMAIN recvLog :
          /\ k < l
          /\ jobPanics[recvLog[k][1]]
          /\ wpc[recvLog[k][2]] = "panicked"
          /\ recvLog[l][2] # recvLog[k][2]
          /\ doneCount[recvLog[l][1]] = 1

\* C20: drop does not survive a worker that died of a panic: when the join
\* of such a worker returns, drop panics there; the workers after it keep
\* their thread handles and are never joined, and drop never returns.  So
\* when drop has returned no worker has panicked and no submitted job
\* panics, and all workers were joined.
C20_DropPanicsOnDeadWorker ==
    /\ [](mpc \in {"drop_panicked", "aborted"} =>
             /\ wpc[workers[idx + 1].id] = "panicked"
             /\ joins[workers[idx + 1].id] = 1
             /\ \A i \in (idx + 2) .. Len(workers) :
                   workers[i].thread = "Some" /\ joins[workers[i].id] = 0)
    /\ [](mpc = "returned" =>
             /\ Panicked = {}
             /\ NoJobPanics
             /\ \A w \in Spawned : joins[w] = 1)
    /\ [][(mpc = "join" /\ mpc' # "join") =>
             (wpc[workers[idx + 1].id] = "panicked"
                  <=> mpc' \in {"drop_panicked", "aborted"})]_vars
    /\ [][(mpc = "drop_panicked" \/ mpc = "aborted") =>
             UNCHANGED <<mpc, idx, joins, workers, tlog>>]_vars

\* Drop has panicked at worker 0 of a pool of two or more workers; worker 1
\* has not been joined and is still running a job.
C20_Witness ==
    /\ mpc = "drop_panicked"
    /\ size >= 2
    /\ idx = 0
    /\ joins[1] = 0
    /\ workers[2].thread = "Some"
    /\ wpc[1] = "exec"

====
